---- MODULE Spec2Model ----
(***************************************************************************)
(* Messaging core of the Stratix backend: the conversation and message     *)
(* stores (controllers/conversationController.ts, messageController.ts),   *)
(* the realtime gateway (socket/index.ts, socket/messageHandler.ts) and    *)
(* the presence map.  Handlers are translated statement by statement; an  *)
(* await is a suspension point only in the specifications that study       *)
(* concurrent requests.                                                    *)
(***************************************************************************)
EXTENDS Integers, Sequences, FiniteSets, TLC

\* ---------------------------------------------------------------- bounds
MaxConvs == 2
MaxMsgs == 2
MaxTime == 1

\* ------------------------------------------------------- input alphabets
Users == {"A", "B", "C"}
\* participantId of POST /conversations: a user, an id of no user, or absent
Ghost == "ghost"
Absent == ""
ParticipantInputs == Users \cup {Ghost, Absent}
Sockets == {"s1", "s2", "s3"}
\* message texts are strings over one letter and the blank
Texts == {<<" ">>, <<"x">>, <<" ", "y", " ">>}

NoUser == "nobody"
NoTime == -1

ConvId(i) == "c" \o ToString(i)
MsgId(i) == "m" \o ToString(i)
ConvIds == {ConvId(i) : i \in 1..MaxConvs}
MsgIds == {MsgId(i) : i \in 1..MaxMsgs}

VARIABLES
  convs,        \* Conversation collection: id -> document
  msgs,         \* Message collection: id -> document
  nConvs,       \* conversations created so far (ids are never reused)
  nMsgs,        \* messages created so far
  now,          \* the wall clock read by new Date()
  ioSet,        \* the exported `io` of socket/index.ts has been set
  socks,        \* gateway connections: id -> [status, userId, rooms]
  onlineUsers,  \* presence map userId -> socket id
  emitted,      \* emit calls of the last handler, in call order
  last,         \* the last finished handler: its inputs and its response
  reqs          \* createConversation requests suspended at an await

vars == <<convs, msgs, nConvs, nMsgs, now, ioSet, socks, onlineUsers, emitted, last, reqs>>

\* ---------------------------------------------------------------- helpers
Range(f) == {f[x] : x \in DOMAIN f}

Restrict(f, S) == [x \in S |-> f[x]]

\* new Date(): the clock never runs backwards; two reads may fall in one tick
Times == now..(IF now < MaxTime THEN now + 1 ELSE now)

\* what a finished handler leaves to be observed: which handler it was, the
\* authenticated user it ran for (req.user._id, socket.data.userId) and its
\* response (HTTP status or acknowledgment, and the id returned)
NoId == "none"

Reply(op, by, status, id) ==
  [op |-> op, by |-> by, status |-> status, id |-> id, messages |-> <<>>, total |-> 0]

\* the response of GET /conversations/:id/messages: data.messages and
\* data.pagination.total
PageReply(op, by, status, messages, total) ==
  [op |-> op, by |-> by, status |-> status, id |-> NoId, messages |-> messages, total |-> total]

NoLast == Reply("none", NoUser, "none", NoId)

\* ------------------------------------------------ Conversation collection
\* a lookup that takes the participants array in the order given
MatchAllSize2_Ordered(c, userId, participantId) ==
  convs[c].participants = <<userId, participantId>>

\* Conversation.findOne({participants: {$all: [userId, participantId], $size: 2}})
MatchAllSize2(c, userId, participantId) ==
  /\ Len(convs[c].participants) = 2
  /\ userId \in Range(convs[c].participants)
  /\ participantId \in Range(convs[c].participants)

ExistingConversations(userId, participantId) ==
  {c \in DOMAIN convs : MatchAllSize2(c, userId, participantId)}

\* schema validator of participants: v.length >= 2
ValidParticipants(ps) == Len(ps) >= 2

\* Conversation.create({participants: [userId, participantId]})
NewConversation(userId, participantId, t) ==
  [participants |-> <<userId, participantId>>,
   lastMessage |-> [text |-> <<>>, senderId |-> NoUser, timestamp |-> NoTime],
   createdAt |-> t,
   updatedAt |-> t]

\* ----------------------------------------------------- String.prototype.trim
IsBlank(ch) == ch = " "

RECURSIVE TrimStart(_)
TrimStart(s) ==
  IF s = <<>> THEN <<>>
  ELSE IF IsBlank(Head(s)) THEN TrimStart(Tail(s)) ELSE s

RECURSIVE TrimEnd(_)
TrimEnd(s) ==
  IF s = <<>> THEN <<>>
  ELSE IF IsBlank(s[Len(s)]) THEN TrimEnd(SubSeq(s, 1, Len(s) - 1)) ELSE s

Trim(s) == TrimEnd(TrimStart(s))

\* ------------------------------------------------------- socket.io rooms
Active(s) == socks[s].status = "active"

\* io.to(room): the connected sockets that have joined the room
InRoom(room) == {s \in Sockets : Active(s) /\ room \in socks[s].rooms}

\* io.to(room).emit(ev, payload)
Emit(room, ev, arg) == [ev |-> ev, arg |-> arg, to |-> InRoom(room)]

\* socket.emit(ev, payload): this socket alone
BroadcastEmit_Self(s, ev, arg) ==
  [ev |-> ev, arg |-> arg, to |-> {x \in Sockets : Active(x) /\ x = s}]

\* socket.broadcast.emit(ev, payload): every connected socket but this one
BroadcastEmit(s, ev, arg) ==
  [ev |-> ev, arg |-> arg, to |-> {x \in Sockets : Active(x) /\ x # s}]

\* only the conversation room
NewMessageRooms_RoomOnly(conversationId, participants) == <<conversationId>>

\* the rooms a new message is emitted to, in order: conversationId, then
\* the personal room of every element of conversation.participants
NewMessageRooms(conversationId, participants) == <<conversationId>> \o participants

\* io.to(conversationId).emit('newMessage', ..) and then one emit to the
\* personal room of every element of conversation.participants
NewMessageEmits(conversationId, participants, m) ==
  [i \in 1..Len(NewMessageRooms(conversationId, participants)) |->
     Emit(NewMessageRooms(conversationId, participants)[i], "newMessage", m)]

\* ---------------------------------------------------- Message collection
\* Message.create({conversationId, senderId, text: text.trim(), isRead: false})
NewMessage(conversationId, senderId, text, t) ==
  [conversationId |-> conversationId,
   senderId |-> senderId,
   text |-> Trim(text),
   isRead |-> FALSE,
   readAt |-> NoTime,
   createdAt |-> t]

\* an update that leaves a snapshot alone once one is there
UpdateLastMessage_IfUnset(cs, conversationId, senderId, text, t1, t2) ==
  IF conversationId \in DOMAIN cs /\ cs[conversationId].lastMessage.senderId = NoUser
  THEN [cs EXCEPT ![conversationId].lastMessage =
                     [text |-> Trim(text), senderId |-> senderId, timestamp |-> t1],
                  ![conversationId].updatedAt = t2]
  ELSE cs

\* Conversation.findByIdAndUpdate(conversationId, {lastMessage, updatedAt}):
\* updates the document when it is there, and nothing when it is not
UpdateLastMessage(cs, conversationId, senderId, text, t1, t2) ==
  IF conversationId \in DOMAIN cs
  THEN [cs EXCEPT ![conversationId].lastMessage =
                     [text |-> Trim(text), senderId |-> senderId, timestamp |-> t1],
                  ![conversationId].updatedAt = t2]
  ELSE cs

\* conversation.participants.some(p => p.toString() === userId)
IsParticipant(c, userId) == userId \in Range(convs[c].participants)

\* a validation that forgets to trim
EmptyText_NoTrim(text) == text = <<>>

\* !text?.trim()
EmptyText(text) == Trim(text) = <<>>

\* a sender check that never fires
IsSender_Never(m, userId) == FALSE

\* message.senderId.toString() === userId.toString()
IsSender(m, userId) == msgs[m].senderId = userId

\* a save that flips the flag instead of setting it
MarkRead_Toggle(ms, m, t) == [ms EXCEPT ![m].isRead = ~@, ![m].readAt = t]

\* message.isRead = true; message.readAt = new Date(); message.save()
MarkRead(ms, m, t) == [ms EXCEPT ![m].isRead = TRUE, ![m].readAt = t]

\* ======================================================= REST handlers
\* POST /conversations, run without interruption
CreateConversation(userId, participantId) ==
  /\ UNCHANGED <<msgs, nMsgs, ioSet, socks, onlineUsers, reqs>>
  /\ emitted' = <<>>
  /\ IF participantId = Absent
     THEN /\ last' = Reply("createConversation", userId, "400", NoId)
          /\ UNCHANGED <<convs, nConvs, now>>
     ELSE IF participantId \notin Users
     THEN /\ last' = Reply("createConversation", userId, "404", NoId)
          /\ UNCHANGED <<convs, nConvs, now>>
     ELSE IF ExistingConversations(userId, participantId) # {}
     THEN /\ \E c \in ExistingConversations(userId, participantId) :
               last' = Reply("createConversation", userId, "200", c)
          /\ UNCHANGED <<convs, nConvs, now>>
     ELSE /\ nConvs < MaxConvs
          /\ ValidParticipants(<<userId, participantId>>)
          /\ \E t \in Times :
               /\ now' = t
               /\ convs' = convs @@ (ConvId(nConvs + 1) :> NewConversation(userId, participantId, t))
          /\ nConvs' = nConvs + 1
          /\ last' = Reply("createConversation", userId, "201", ConvId(nConvs + 1))

\* DELETE /conversations/:id
DeleteConversation(userId, id) ==
  /\ UNCHANGED <<nConvs, nMsgs, now, ioSet, socks, onlineUsers, reqs>>
  /\ emitted' = <<>>
  /\ IF id \in DOMAIN convs /\ IsParticipant(id, userId)
     THEN /\ convs' = Restrict(convs, DOMAIN convs \ {id})
          /\ msgs' = Restrict(msgs, {m \in DOMAIN msgs : msgs[m].conversationId # id})
          /\ last' = Reply("deleteConversation", userId, "200", NoId)
     ELSE /\ UNCHANGED <<convs, msgs>>
          /\ last' = Reply("deleteConversation", userId, "404", NoId)

\* what a send handler can come to from the current state: its response
\* (status, error text, id of the message), the two collections and the
\* clock after it, the rooms it emitted newMessage to and the emits
Refusal(status, error) ==
  [status |-> status, error |-> error, id |-> NoId, msgs |-> msgs, convs |-> convs,
   now |-> now, rooms |-> <<>>, emits |-> <<>>]

\* new Date() taken at Message.create and again at findByIdAndUpdate
SendTimes == {p \in Times \X (0..MaxTime) : p[2] \in {p[1], IF p[1] < MaxTime THEN p[1] + 1 ELSE p[1]}}

NoError == "none"

\* a send that answers an outsider as getMessages does, with 404
SendMessageOutcomes_OutsiderNotFound(userId, conversationId, text) ==
  IF conversationId = Absent \/ EmptyText(text)
  THEN {Refusal("400", "Conversation ID and message text are required")}
  ELSE IF conversationId \notin DOMAIN convs \/ ~IsParticipant(conversationId, userId)
  THEN {Refusal("404", "Conversation not found")}
  ELSE IF nMsgs >= MaxMsgs THEN {}
  ELSE {[status |-> "201",
         error |-> NoError,
         id |-> MsgId(nMsgs + 1),
         msgs |-> msgs @@ (MsgId(nMsgs + 1) :> NewMessage(conversationId, userId, text, p[1])),
         convs |-> UpdateLastMessage(convs, conversationId, userId, text, p[2], p[2]),
         now |-> p[2],
         rooms |-> IF ioSet
                   THEN NewMessageRooms(conversationId, convs[conversationId].participants)
                   ELSE <<>>,
         emits |-> IF ioSet
                   THEN NewMessageEmits(conversationId, convs[conversationId].participants,
                                        MsgId(nMsgs + 1))
                   ELSE <<>>] : p \in SendTimes}

\* POST /messages
SendMessageOutcomes(userId, conversationId, text) ==
  IF conversationId = Absent \/ EmptyText(text)
  THEN {Refusal("400", "Conversation ID and message text are required")}
  ELSE IF conversationId \notin DOMAIN convs
  THEN {Refusal("404", "Conversation not found")}
  ELSE IF ~IsParticipant(conversationId, userId)
  THEN {Refusal("403", "You are not a participant in this conversation")}
  ELSE IF nMsgs >= MaxMsgs THEN {}
  ELSE {[status |-> "201",
         error |-> NoError,
         id |-> MsgId(nMsgs + 1),
         msgs |-> msgs @@ (MsgId(nMsgs + 1) :> NewMessage(conversationId, userId, text, p[1])),
         convs |-> UpdateLastMessage(convs, conversationId, userId, text, p[2], p[2]),
         now |-> p[2],
         rooms |-> IF ioSet
                   THEN NewMessageRooms(conversationId, convs[conversationId].participants)
                   ELSE <<>>,
         emits |-> IF ioSet
                   THEN NewMessageEmits(conversationId, convs[conversationId].participants,
                                        MsgId(nMsgs + 1))
                   ELSE <<>>] : p \in SendTimes}

SendMessage(userId, conversationId, text) ==
  /\ UNCHANGED <<nConvs, ioSet, socks, onlineUsers, reqs>>
  /\ \E o \in SendMessageOutcomes(userId, conversationId, text) :
       /\ msgs' = o.msgs
       /\ convs' = o.convs
       /\ now' = o.now
       /\ nMsgs' = IF o.id = NoId THEN nMsgs ELSE nMsgs + 1
       /\ emitted' = o.emits
       /\ last' = Reply("sendMessage", userId, o.status, o.id)

\* PUT /messages/:id/read
MarkAsRead(userId, id) ==
  /\ UNCHANGED <<convs, nConvs, nMsgs, ioSet, socks, onlineUsers, reqs>>
  /\ IF id \notin DOMAIN msgs
     THEN /\ last' = Reply("markAsRead", userId, "404", NoId)
          /\ emitted' = <<>>
          /\ UNCHANGED <<msgs, now>>
     ELSE IF IsSender(id, userId)
     THEN /\ last' = Reply("markAsRead", userId, "400", NoId)
          /\ emitted' = <<>>
          /\ UNCHANGED <<msgs, now>>
     ELSE IF ~(msgs[id].conversationId \in DOMAIN convs
               /\ IsParticipant(msgs[id].conversationId, userId))
     THEN /\ last' = Reply("markAsRead", userId, "403", NoId)
          /\ emitted' = <<>>
          /\ UNCHANGED <<msgs, now>>
     ELSE /\ \E t \in Times :
               /\ msgs' = MarkRead(msgs, id, t)
               /\ now' = t
          /\ emitted' = IF ioSet THEN <<Emit(msgs[id].senderId, "messageRead", id)>> ELSE <<>>
          /\ last' = Reply("markAsRead", userId, "200", id)

\* GET /messages/unread/count: Conversation.find({participants: userId}),
\* then Message.countDocuments over those conversations
UnreadCount(userId) ==
  Cardinality({m \in DOMAIN msgs :
                 /\ msgs[m].conversationId \in {c \in DOMAIN convs : IsParticipant(c, userId)}
                 /\ msgs[m].senderId # userId
                 /\ ~msgs[m].isRead})

GetUnreadCount(userId) ==
  /\ last' = PageReply("getUnreadCount", userId, "200", <<>>, UnreadCount(userId))
  /\ emitted' = <<>>
  /\ UNCHANGED <<convs, msgs, nConvs, nMsgs, now, ioSet, socks, onlineUsers, reqs>>

\* GET /conversations/:id/messages?page=&limit=
DefaultPage == 1
DefaultLimit == 50

\* parseInt(req.query.x) || dflt, the parameter being absent (0) or a number
QueryInt(raw, dflt) == IF raw = 0 THEN dflt ELSE raw

Perms(S) == {q \in [1..Cardinality(S) -> S] : \A i, j \in DOMAIN q : i # j => q[i] # q[j]}

\* Message.find({conversationId}).sort({createdAt: -1}): any order of the
\* conversation's messages that is newest first (ties in either order)
NewestFirst(id) ==
  {q \in Perms({m \in DOMAIN msgs : msgs[m].conversationId = id}) :
     \A i \in 1..(Len(q) - 1) : msgs[q[i]].createdAt >= msgs[q[i + 1]].createdAt}

\* .skip(skip).limit(limit)
SkipLimit(q, skip, limit) ==
  SubSeq(q, skip + 1, IF skip + limit < Len(q) THEN skip + limit ELSE Len(q))

\* a page handed out as the store returned it
Reverse_Forgotten(q) == q

\* messages.reverse()
Reverse(q) == [i \in 1..Len(q) |-> q[Len(q) + 1 - i]]

\* the responses getMessages can give in the current state
GetMessagesReplies(userId, id, rawPage, rawLimit) ==
  LET page == QueryInt(rawPage, DefaultPage)
      limit == QueryInt(rawLimit, DefaultLimit)
      skip == (page - 1) * limit
  IN IF ~(id \in DOMAIN convs /\ IsParticipant(id, userId))
     THEN {Reply("getMessages", userId, "404", NoId)}
     ELSE {PageReply("getMessages", userId, "200", Reverse(SkipLimit(q, skip, limit)), Len(q)) :
             q \in NewestFirst(id)}

GetMessages(userId, id, rawPage, rawLimit) ==
  /\ UNCHANGED <<convs, msgs, nConvs, nMsgs, now, ioSet, socks, onlineUsers, reqs>>
  /\ emitted' = <<>>
  /\ last' \in GetMessagesReplies(userId, id, rawPage, rawLimit)

\* GET /conversations?page=&limit=
DefaultConversationLimit == 20

\* a listing in whatever order the store holds the conversations
RecentFirst_Unsorted(userId) ==
  Perms({c \in DOMAIN convs : IsParticipant(c, userId)})

\* Conversation.find({participants: userId}).sort({updatedAt: -1}): any
\* order of the caller's conversations that is most recently updated first
\* (ties in either order)
RecentFirst(userId) ==
  {q \in Perms({c \in DOMAIN convs : IsParticipant(c, userId)}) :
     \A i \in 1..(Len(q) - 1) : convs[q[i]].updatedAt >= convs[q[i + 1]].updatedAt}

\* the responses getConversations can give in the current state:
\* data.conversations (here in the reply's list field, as ids) and
\* data.pagination.total
GetConversationsReplies(userId, rawPage, rawLimit) ==
  LET page == QueryInt(rawPage, DefaultPage)
      limit == QueryInt(rawLimit, DefaultConversationLimit)
      skip == (page - 1) * limit
  IN {PageReply("getConversations", userId, "200", SkipLimit(q, skip, limit),
                Cardinality({c \in DOMAIN convs : IsParticipant(c, userId)})) :
        q \in RecentFirst(userId)}

GetConversations(userId, rawPage, rawLimit) ==
  /\ last' \in GetConversationsReplies(userId, rawPage, rawLimit)
  /\ emitted' = <<>>
  /\ UNCHANGED <<convs, msgs, nConvs, nMsgs, now, ioSet, socks, onlineUsers, reqs>>

\* setSocketInstance(instance)
SetSocketInstance ==
  /\ ~ioSet
  /\ ioSet' = TRUE
  /\ emitted' = <<>>
  /\ last' = NoLast
  /\ UNCHANGED <<convs, msgs, nConvs, nMsgs, now, socks, onlineUsers, reqs>>

\* ===================================================== realtime gateway
NoSocket == [status |-> "idle", userId |-> NoUser, rooms |-> {}]
ClosedSocket == [status |-> "closed", userId |-> NoUser, rooms |-> {}]

\* io.on('connection'): a connection that passed authenticateSocket as userId
Connect(s, userId) ==
  /\ socks[s].status = "idle"
  /\ socks' = [socks EXCEPT ![s] = [status |-> "active", userId |-> userId, rooms |-> {userId}]]
  /\ onlineUsers' = [x \in DOMAIN onlineUsers \cup {userId} |->
                       IF x = userId THEN s ELSE onlineUsers[x]]
  /\ emitted' = <<BroadcastEmit(s, "userOnline", userId)>>
  /\ last' = Reply("connection", userId, "none", NoId)
  /\ UNCHANGED <<convs, msgs, nConvs, nMsgs, now, ioSet, reqs>>

\* ---- authenticateSocket: the handshake middleware
\* A string is a sequence of parts; a handshake field is <<>> when it is
\* undefined and <<v>> when it is set to the string v.
Bearer == "Bearer "
AuthInputs == {<<>>, << <<>> >>, << <<"tA">> >>, << <<"bad">> >>}
HeaderInputs == {<<>>, << <<Bearer>> >>, << <<Bearer, "tB">> >>, << <<"tB">> >>,
                 << <<Bearer, "tGhost">> >>}
QueryTokenInputs == {<<>>, << <<"tC">> >>, << <<"bad">> >>}

\* str.replace('Bearer ', ''): the first occurrence removed
RECURSIVE ReplaceFirst(_, _)
ReplaceFirst(v, part) ==
  IF v = <<>> THEN <<>>
  ELSE IF Head(v) = part THEN Tail(v)
  ELSE <<Head(v)>> \o ReplaceFirst(Tail(v), part)

\* socket.handshake.headers?.authorization?.replace('Bearer ', '')
HeaderToken(h) == IF h = <<>> THEN <<>> ELSE <<ReplaceFirst(h[1], Bearer)>>

\* a defined, non-empty string
Truthy(f) == f # <<>> /\ f[1] # <<>>

\* f || g
Or(f, g) == IF Truthy(f) THEN f ELSE g

\* the query parameter before the auth field
HandshakeToken_QueryFirst(a, h, q) == Or(q, Or(HeaderToken(h), a))

\* auth?.token || headers?.authorization?.replace(..) || query?.token
HandshakeToken(a, h, q) == Or(a, Or(HeaderToken(h), q))

\* verifyToken(token) does not throw
ValidToken(v) == Len(v) = 1 /\ v[1] \in {"tA", "tB", "tC", "tGhost"}

\* decoded.userId
DecodedUser(v) ==
  CASE v[1] = "tA" -> "A" [] v[1] = "tB" -> "B" [] v[1] = "tC" -> "C" [] OTHER -> Ghost

\* a lookup that finds whoever the token names
UserExists_Any(u) == TRUE

\* User.findById(decoded.userId) finds a user
UserExists(u) == u \in Users

RejectedSocket == [status |-> "rejected", userId |-> NoUser, rooms |-> {}]

\* next(new Error('Authentication error: ..')): the connection is refused
Reject(s, why) ==
  /\ socks' = [socks EXCEPT ![s] = RejectedSocket]
  /\ emitted' = <<>>
  /\ last' = Reply("handshake", NoUser, why, NoId)
  /\ UNCHANGED <<convs, msgs, nConvs, nMsgs, now, ioSet, onlineUsers, reqs>>

\* io.use(authenticateSocket), then io.on('connection') when next() is called
Handshake(s, a, h, q) ==
  LET token == HandshakeToken(a, h, q) IN
  /\ socks[s].status = "idle"
  /\ IF ~Truthy(token) THEN Reject(s, "No token provided")
     ELSE IF ~ValidToken(token[1]) THEN Reject(s, "Invalid token")
     ELSE IF ~UserExists(DecodedUser(token[1])) THEN Reject(s, "User not found")
     ELSE Connect(s, DecodedUser(token[1]))

\* socket.on('disconnect')
Disconnect(s) ==
  /\ Active(s)
  /\ socks' = [socks EXCEPT ![s] = ClosedSocket]
  /\ onlineUsers' = Restrict(onlineUsers, DOMAIN onlineUsers \ {socks[s].userId})
  /\ emitted' = <<BroadcastEmit(s, "userOffline", socks[s].userId)>>
  /\ last' = Reply("disconnect", socks[s].userId, "none", NoId)
  /\ UNCHANGED <<convs, msgs, nConvs, nMsgs, now, ioSet, reqs>>

\* socket.on('joinConversation'): the room name is whatever the client sent
JoinConversation(s, conversationId) ==
  /\ Active(s)
  /\ socks' = [socks EXCEPT ![s].rooms = @ \cup {conversationId}]
  /\ emitted' = <<>>
  /\ last' = Reply("joinConversation", socks[s].userId, "none", NoId)
  /\ UNCHANGED <<convs, msgs, nConvs, nMsgs, now, ioSet, onlineUsers, reqs>>

\* socket.on('leaveConversation')
LeaveConversation(s, conversationId) ==
  /\ Active(s)
  /\ socks' = [socks EXCEPT ![s].rooms = @ \ {conversationId}]
  /\ emitted' = <<>>
  /\ last' = Reply("leaveConversation", socks[s].userId, "none", NoId)
  /\ UNCHANGED <<convs, msgs, nConvs, nMsgs, now, ioSet, onlineUsers, reqs>>

\* socket.on('sendMessage', data, callback)
WsSendMessageOutcomes(s, conversationId, text) ==
  LET userId == socks[s].userId IN
  IF conversationId = Absent \/ EmptyText(text)
  THEN {Refusal("ack:false", "Conversation ID and message text are required")}
  ELSE IF conversationId \notin DOMAIN convs
  THEN {Refusal("ack:false", "Conversation not found")}
  ELSE IF ~IsParticipant(conversationId, userId)
  THEN {Refusal("ack:false", "You are not a participant in this conversation")}
  ELSE IF nMsgs >= MaxMsgs THEN {}
  ELSE {[status |-> "ack:true",
         error |-> NoError,
         id |-> MsgId(nMsgs + 1),
         msgs |-> msgs @@ (MsgId(nMsgs + 1) :> NewMessage(conversationId, userId, text, p[1])),
         convs |-> UpdateLastMessage(convs, conversationId, userId, text, p[2], p[2]),
         now |-> p[2],
         rooms |-> NewMessageRooms(conversationId, convs[conversationId].participants),
         emits |-> NewMessageEmits(conversationId, convs[conversationId].participants,
                                   MsgId(nMsgs + 1))] : p \in SendTimes}

WsSendMessage(s, conversationId, text) ==
  /\ Active(s)
  /\ UNCHANGED <<nConvs, ioSet, socks, onlineUsers, reqs>>
  /\ \E o \in WsSendMessageOutcomes(s, conversationId, text) :
       /\ msgs' = o.msgs
       /\ convs' = o.convs
       /\ now' = o.now
       /\ nMsgs' = IF o.id = NoId THEN nMsgs ELSE nMsgs + 1
       /\ emitted' = o.emits
       /\ last' = Reply("ws:sendMessage", socks[s].userId, o.status, o.id)

\* socket.on('messageRead', data)
WsMessageRead(s, messageId) ==
  LET userId == socks[s].userId IN
  /\ Active(s)
  /\ UNCHANGED <<convs, nConvs, nMsgs, ioSet, socks, onlineUsers, reqs>>
  /\ IF messageId \notin DOMAIN msgs
     THEN /\ last' = Reply("ws:messageRead", userId, "dropped", NoId)
          /\ emitted' = <<>>
          /\ UNCHANGED <<msgs, now>>
     ELSE IF IsSender(messageId, userId)
     THEN /\ last' = Reply("ws:messageRead", userId, "dropped", NoId)
          /\ emitted' = <<>>
          /\ UNCHANGED <<msgs, now>>
     ELSE /\ \E t \in Times :
               /\ msgs' = MarkRead(msgs, messageId, t)
               /\ now' = t
          /\ emitted' = <<Emit(msgs[messageId].senderId, "messageRead", messageId)>>
          /\ last' = Reply("ws:messageRead", userId, "done", messageId)

\* io.to(room).emit(ev, payload): the sender's own socket included
SocketTo_Self(s, room, ev, arg) == [ev |-> ev, arg |-> arg, to |-> InRoom(room)]

\* socket.to(room).emit(ev, payload): the sockets in the room but this one
SocketTo(s, room, ev, arg) == [ev |-> ev, arg |-> arg, to |-> InRoom(room) \ {s}]

\* an error that escapes the handler and takes the connection down
Caught_Closing(s) == [socks EXCEPT ![s] = ClosedSocket]

\* `catch (error) { console.error(...) }` of a gateway handler: the error
\* is logged (send: acknowledged) and the connection is left as it is
Caught(s) == socks

\* the payload of a typing event: {userId, conversationId, isTyping}
TypingPayload(userId, conversationId, isTyping) == <<userId, conversationId, isTyping>>

\* socket.on('typing', data): dropped without a word when the conversation
\* is absent or the user is not in it; Conversation.findById may reject
WsTyping(s, conversationId, isTyping) ==
  LET userId == socks[s].userId IN
  /\ Active(s)
  /\ UNCHANGED <<convs, msgs, nConvs, nMsgs, now, ioSet, onlineUsers, reqs>>
  /\ \/ /\ IF conversationId \notin DOMAIN convs
           THEN /\ emitted' = <<>>
                /\ last' = Reply("ws:typing", userId, "dropped", NoId)
           ELSE IF ~IsParticipant(conversationId, userId)
           THEN /\ emitted' = <<>>
                /\ last' = Reply("ws:typing", userId, "dropped", NoId)
           ELSE /\ emitted' = <<SocketTo(s, conversationId, "typing",
                                         TypingPayload(userId, conversationId, isTyping))>>
                /\ last' = Reply("ws:typing", userId, "done", conversationId)
        /\ UNCHANGED socks
     \/ /\ emitted' = <<>>
        /\ last' = Reply("ws:typing", userId, "failed", NoId)
        /\ socks' = Caught(s)

\* ========================================== sendMessage, await by await
\* A send in flight: the handler's locals between two awaits.  socket is
\* the connection a gateway send came in on, and RestPath for a REST send.
RestPath == "rest"

Sending(pc, socket, userId, conversationId, text) ==
  [pc |-> pc, socket |-> socket, userId |-> userId, conversationId |-> conversationId,
   text |-> text, participants |-> <<>>, status |-> "none", id |-> NoId,
   completed |-> 0, emittedAt |-> 0]

SendOp(rq) == IF rq.socket = RestPath THEN "sendMessage" ELSE "ws:sendMessage"

\* the response the handler gives for an outcome: an HTTP status, or the
\* acknowledgment's success flag
SendStatus(rq, outcome) ==
  IF rq.socket = RestPath THEN outcome
  ELSE IF outcome = "201" THEN "ack:true" ELSE "ack:false"

\* how many of the sends have got so far as to have set field f
Ranked(f) == Cardinality({q \in DOMAIN reqs : f \in DOMAIN reqs[q] /\ reqs[q][f] > 0})

\* the await after whose resolution the handler emits newMessage
EmitPoint_BeforeUpdate == "populate"

EmitPoint == "update"

\* the emits of a send, where the handler has an instance to emit through
SendEmits(rq) ==
  IF rq.socket = RestPath /\ ~ioSet THEN <<>>
  ELSE NewMessageEmits(rq.conversationId, rq.participants, rq.id)

\* the request arrives (requests are numbered as they arrive); validation
\* up to `await Conversation.findById`
BeginSend(r, s, userId, conversationId, text) ==
  LET rq == Sending("findConversation", s, userId, conversationId, text) IN
  /\ r \notin DOMAIN reqs
  /\ r = "r1" \/ "r1" \in DOMAIN reqs
  /\ s # RestPath => (Active(s) /\ socks[s].userId = userId)
  /\ IF conversationId = Absent \/ EmptyText(text)
     THEN /\ reqs' = reqs @@ (r :> [rq EXCEPT !.pc = "done", !.status = SendStatus(rq, "400")])
          /\ last' = Reply(SendOp(rq), userId, SendStatus(rq, "400"), NoId)
     ELSE /\ reqs' = reqs @@ (r :> rq)
          /\ last' = NoLast
  /\ emitted' = <<>>
  /\ UNCHANGED <<convs, msgs, nConvs, nMsgs, now, ioSet, socks, onlineUsers>>

\* Conversation.findById resolves; participant check; Message.create is issued
SendFindConversation(r) ==
  /\ r \in DOMAIN reqs
  /\ reqs[r].pc = "findConversation"
  /\ LET rq == reqs[r]
         outcome == IF rq.conversationId \notin DOMAIN convs THEN "404"
                    ELSE IF ~IsParticipant(rq.conversationId, rq.userId) THEN "403"
                    ELSE "ok"
     IN IF outcome = "ok"
        THEN /\ reqs' = [reqs EXCEPT ![r].pc = "create",
                                     ![r].participants = convs[rq.conversationId].participants]
             /\ last' = NoLast
        ELSE /\ reqs' = [reqs EXCEPT ![r].pc = "done", ![r].status = SendStatus(rq, outcome)]
             /\ last' = Reply(SendOp(rq), rq.userId, SendStatus(rq, outcome), NoId)
  /\ emitted' = <<>>
  /\ UNCHANGED <<convs, msgs, nConvs, nMsgs, now, ioSet, socks, onlineUsers>>

\* Message.create resolves: the message is stored; message.populate is issued
SendCreate(r) ==
  /\ r \in DOMAIN reqs
  /\ reqs[r].pc = "create"
  /\ nMsgs < MaxMsgs
  /\ \E t \in Times :
       /\ msgs' = msgs @@ (MsgId(nMsgs + 1) :>
                    NewMessage(reqs[r].conversationId, reqs[r].userId, reqs[r].text, t))
       /\ now' = t
  /\ nMsgs' = nMsgs + 1
  /\ reqs' = [reqs EXCEPT ![r].pc = "populate", ![r].id = MsgId(nMsgs + 1)]
  /\ emitted' = <<>>
  /\ last' = NoLast
  /\ UNCHANGED <<convs, nConvs, ioSet, socks, onlineUsers>>

\* message.populate resolves; Conversation.findByIdAndUpdate is issued
SendPopulate(r) ==
  /\ r \in DOMAIN reqs
  /\ reqs[r].pc = "populate"
  /\ reqs' = [reqs EXCEPT ![r].pc = "update",
                          ![r].emittedAt = IF EmitPoint = "populate"
                                           THEN Ranked("emittedAt") + 1 ELSE @]
  /\ emitted' = IF EmitPoint = "populate" THEN SendEmits(reqs[r]) ELSE <<>>
  /\ last' = NoLast
  /\ UNCHANGED <<convs, msgs, nConvs, nMsgs, now, ioSet, socks, onlineUsers>>

\* Conversation.findByIdAndUpdate resolves: lastMessage is overwritten; the
\* emits and the response follow without another await
SendUpdate(r) ==
  /\ r \in DOMAIN reqs
  /\ reqs[r].pc = "update"
  /\ \E t \in Times :
       /\ convs' = UpdateLastMessage(convs, reqs[r].conversationId, reqs[r].userId,
                                     reqs[r].text, t, t)
       /\ now' = t
  /\ reqs' = [reqs EXCEPT ![r].pc = "done",
                          ![r].status = SendStatus(reqs[r], "201"),
                          ![r].completed = Ranked("completed") + 1,
                          ![r].emittedAt = IF EmitPoint = "update"
                                           THEN Ranked("emittedAt") + 1 ELSE @]
  /\ emitted' = IF EmitPoint = "update" THEN SendEmits(reqs[r]) ELSE <<>>
  /\ last' = Reply(SendOp(reqs[r]), reqs[r].userId, SendStatus(reqs[r], "201"), reqs[r].id)
  /\ UNCHANGED <<msgs, nConvs, nMsgs, ioSet, socks, onlineUsers>>

\* the awaited store operation rejects: the catch block answers 500, or
\* acknowledges success:false
SendFail(r) ==
  /\ r \in DOMAIN reqs
  /\ reqs[r].pc \in {"findConversation", "create", "populate", "update"}
  /\ reqs' = [reqs EXCEPT ![r].pc = "done", ![r].status = SendStatus(reqs[r], "500")]
  /\ emitted' = <<>>
  /\ last' = Reply(SendOp(reqs[r]), reqs[r].userId, SendStatus(reqs[r], "500"), NoId)
  /\ socks' = IF reqs[r].socket = RestPath THEN socks ELSE Caught(reqs[r].socket)
  /\ UNCHANGED <<convs, msgs, nConvs, nMsgs, now, ioSet, onlineUsers>>

\* ============================================ markAsRead, await by await
\* A mark-read in flight: the handler's locals between two awaits.
\* wasRead is isRead of the document as findById loaded it, readAt the
\* `new Date()` assigned to the loaded document before `message.save()`.
Reading(pc, socket, userId, messageId) ==
  [pc |-> pc, socket |-> socket, userId |-> userId, messageId |-> messageId,
   wasRead |-> FALSE, senderId |-> NoUser, conversationId |-> NoId,
   readAt |-> NoTime, status |-> "none"]

ReadOp(rq) == IF rq.socket = RestPath THEN "markAsRead" ELSE "ws:messageRead"

\* the response for an outcome: an HTTP status; the gateway handler answers
\* nothing, it returns early ("dropped"), runs to its end ("done") or
\* logs the error it caught ("failed")
ReadStatus(rq, outcome) ==
  IF rq.socket = RestPath THEN outcome
  ELSE IF outcome = "200" THEN "done"
  ELSE IF outcome = "500" THEN "failed" ELSE "dropped"

ReadDone(rq, outcome) == [rq EXCEPT !.pc = "done", !.status = ReadStatus(rq, outcome)]

\* the request arrives; `await Message.findById` is issued
BeginRead(r, s, userId, messageId) ==
  /\ r \notin DOMAIN reqs
  /\ r = "r1" \/ "r1" \in DOMAIN reqs
  /\ s # RestPath => (Active(s) /\ socks[s].userId = userId)
  /\ reqs' = reqs @@ (r :> Reading("findMessage", s, userId, messageId))
  /\ emitted' = <<>>
  /\ last' = NoLast
  /\ UNCHANGED <<convs, msgs, nConvs, nMsgs, now, ioSet, socks, onlineUsers>>

\* Message.findById resolves; the sender is turned away.  REST goes on to
\* `await Conversation.findOne`; the gateway handler sets isRead and
\* readAt on the loaded document and issues `message.save()`
ReadFindMessage(r) ==
  /\ r \in DOMAIN reqs
  /\ reqs[r].pc = "findMessage"
  /\ LET rq == reqs[r]
         outcome == IF rq.messageId \notin DOMAIN msgs THEN "404"
                    ELSE IF IsSender(rq.messageId, rq.userId) THEN "400"
                    ELSE "ok"
     IN IF outcome # "ok"
        THEN /\ reqs' = [reqs EXCEPT ![r] = ReadDone(rq, outcome)]
             /\ last' = Reply(ReadOp(rq), rq.userId, ReadStatus(rq, outcome), NoId)
             /\ UNCHANGED now
        ELSE /\ last' = NoLast
             /\ IF rq.socket = RestPath
                THEN /\ reqs' = [reqs EXCEPT ![r].pc = "findConversation",
                                             ![r].wasRead = msgs[rq.messageId].isRead,
                                             ![r].senderId = msgs[rq.messageId].senderId,
                                             ![r].conversationId = msgs[rq.messageId].conversationId]
                     /\ UNCHANGED now
                ELSE \E t \in Times :
                       /\ reqs' = [reqs EXCEPT ![r].pc = "save",
                                               ![r].wasRead = msgs[rq.messageId].isRead,
                                               ![r].senderId = msgs[rq.messageId].senderId,
                                               ![r].conversationId = msgs[rq.messageId].conversationId,
                                               ![r].readAt = t]
                       /\ now' = t
  /\ emitted' = <<>>
  /\ UNCHANGED <<convs, msgs, nConvs, nMsgs, ioSet, socks, onlineUsers>>

\* REST: Conversation.findOne({_id, participants: userId}) resolves; isRead
\* and readAt are set on the loaded document and `message.save()` is issued
ReadFindConversation(r) ==
  /\ r \in DOMAIN reqs
  /\ reqs[r].pc = "findConversation"
  /\ LET rq == reqs[r] IN
        IF rq.conversationId \in DOMAIN convs /\ IsParticipant(rq.conversationId, rq.userId)
        THEN \E t \in Times :
               /\ reqs' = [reqs EXCEPT ![r].pc = "save", ![r].readAt = t]
               /\ now' = t
               /\ last' = NoLast
        ELSE /\ reqs' = [reqs EXCEPT ![r] = ReadDone(rq, "403")]
             /\ last' = Reply(ReadOp(rq), rq.userId, "403", NoId)
             /\ UNCHANGED now
  /\ emitted' = <<>>
  /\ UNCHANGED <<convs, msgs, nConvs, nMsgs, ioSet, socks, onlineUsers>>

\* message.save() resolves: the document is written; the read receipt goes
\* to the sender's room and the response follows without another await.
\* Saving a document that was deleted meanwhile stores nothing and rejects.
ReadSave(r) ==
  /\ r \in DOMAIN reqs
  /\ reqs[r].pc = "save"
  /\ LET rq == reqs[r] IN
     IF rq.messageId \in DOMAIN msgs
     THEN /\ msgs' = MarkRead(msgs, rq.messageId, rq.readAt)
          /\ emitted' = IF rq.socket = RestPath /\ ~ioSet THEN <<>>
                        ELSE <<Emit(rq.senderId, "messageRead", rq.messageId)>>
          /\ reqs' = [reqs EXCEPT ![r] = ReadDone(rq, "200")]
          /\ last' = Reply(ReadOp(rq), rq.userId, ReadStatus(rq, "200"), rq.messageId)
     ELSE /\ UNCHANGED msgs
          /\ emitted' = <<>>
          /\ reqs' = [reqs EXCEPT ![r] = ReadDone(rq, "500")]
          /\ last' = Reply(ReadOp(rq), rq.userId, ReadStatus(rq, "500"), NoId)
  /\ UNCHANGED <<convs, nConvs, nMsgs, now, ioSet, socks, onlineUsers>>

\* the awaited store operation rejects: the catch block answers 500, or
\* logs the error
ReadFail(r) ==
  /\ r \in DOMAIN reqs
  /\ reqs[r].pc \in {"findMessage", "findConversation", "save"}
  /\ reqs' = [reqs EXCEPT ![r] = ReadDone(reqs[r], "500")]
  /\ emitted' = <<>>
  /\ last' = Reply(ReadOp(reqs[r]), reqs[r].userId, ReadStatus(reqs[r], "500"), NoId)
  /\ socks' = IF reqs[r].socket = RestPath THEN socks ELSE Caught(reqs[r].socket)
  /\ UNCHANGED <<convs, msgs, nConvs, nMsgs, now, ioSet, onlineUsers>>

\* ==================================== deleteConversation, await by await
\* A delete in flight.  Its pc ends at "deleted" (answered 200) or at
\* "refused" (answered 404 or 500).
Deleting(pc, userId, conversationId) ==
  [pc |-> pc, userId |-> userId, conversationId |-> conversationId, status |-> "none"]

\* the request arrives; `await Conversation.findOneAndDelete` is issued
BeginDelete(r, userId, id) ==
  /\ r \notin DOMAIN reqs
  /\ r = "r1" \/ "r1" \in DOMAIN reqs
  /\ reqs' = reqs @@ (r :> Deleting("findOneAndDelete", userId, id))
  /\ emitted' = <<>>
  /\ last' = NoLast
  /\ UNCHANGED <<convs, msgs, nConvs, nMsgs, now, ioSet, socks, onlineUsers>>

\* Conversation.findOneAndDelete({_id, participants: userId}) resolves: the
\* conversation is gone, `await Message.deleteMany` is issued; or 404
DeleteFindOne(r) ==
  /\ r \in DOMAIN reqs
  /\ reqs[r].pc = "findOneAndDelete"
  /\ LET rq == reqs[r] IN
     IF rq.conversationId \in DOMAIN convs /\ IsParticipant(rq.conversationId, rq.userId)
     THEN /\ convs' = Restrict(convs, DOMAIN convs \ {rq.conversationId})
          /\ reqs' = [reqs EXCEPT ![r].pc = "deleteMany"]
          /\ last' = NoLast
     ELSE /\ UNCHANGED convs
          /\ reqs' = [reqs EXCEPT ![r].pc = "refused", ![r].status = "404"]
          /\ last' = Reply("deleteConversation", rq.userId, "404", NoId)
  /\ emitted' = <<>>
  /\ UNCHANGED <<msgs, nConvs, nMsgs, now, ioSet, socks, onlineUsers>>

\* Message.deleteMany({conversationId}) resolves: the messages stored by
\* then are gone; 200
DeleteMany(r) ==
  /\ r \in DOMAIN reqs
  /\ reqs[r].pc = "deleteMany"
  /\ msgs' = Restrict(msgs, {m \in DOMAIN msgs : msgs[m].conversationId # reqs[r].conversationId})
  /\ reqs' = [reqs EXCEPT ![r].pc = "deleted", ![r].status = "200"]
  /\ last' = Reply("deleteConversation", reqs[r].userId, "200", NoId)
  /\ emitted' = <<>>
  /\ UNCHANGED <<convs, nConvs, nMsgs, now, ioSet, socks, onlineUsers>>

\* the awaited store operation rejects: the catch block answers 500
DeleteFail(r) ==
  /\ r \in DOMAIN reqs
  /\ reqs[r].pc \in {"findOneAndDelete", "deleteMany"}
  /\ reqs' = [reqs EXCEPT ![r].pc = "refused", ![r].status = "500"]
  /\ last' = Reply("deleteConversation", reqs[r].userId, "500", NoId)
  /\ emitted' = <<>>
  /\ UNCHANGED <<convs, msgs, nConvs, nMsgs, now, ioSet, socks, onlineUsers>>

\* ================================== createConversation, await by await
ReqIds == {"r1", "r2"}

Pending(r, pc, userId, participantId) ==
  [pc |-> pc, userId |-> userId, participantId |-> participantId, status |-> "none", id |-> NoId]

Finish(rq, status, id) == [rq EXCEPT !.pc = "done", !.status = status, !.id = id]

\* the request arrives; validation up to `await User.findById(participantId)`
BeginCreate(r, userId, participantId) ==
  /\ r \notin DOMAIN reqs
  /\ reqs' = reqs @@ (r :> IF participantId = Absent
                           THEN Finish(Pending(r, "begin", userId, participantId), "400", NoId)
                           ELSE Pending(r, "findUser", userId, participantId))
  /\ emitted' = <<>>
  /\ last' = IF participantId = Absent THEN Reply("createConversation", userId, "400", NoId) ELSE NoLast
  /\ UNCHANGED <<convs, msgs, nConvs, nMsgs, now, ioSet, socks, onlineUsers>>

\* User.findById resolves; `await Conversation.findOne(...)` is issued
FindUser(r) ==
  /\ r \in DOMAIN reqs
  /\ reqs[r].pc = "findUser"
  /\ reqs' = [reqs EXCEPT ![r] = IF reqs[r].participantId \notin Users
                                 THEN Finish(reqs[r], "404", NoId)
                                 ELSE [reqs[r] EXCEPT !.pc = "findOne"]]
  /\ emitted' = <<>>
  /\ last' = IF reqs[r].participantId \notin Users
             THEN Reply("createConversation", reqs[r].userId, "404", NoId) ELSE NoLast
  /\ UNCHANGED <<convs, msgs, nConvs, nMsgs, now, ioSet, socks, onlineUsers>>

\* Conversation.findOne resolves: answer with the match, or go on to create
FindConversation(r) ==
  /\ r \in DOMAIN reqs
  /\ reqs[r].pc = "findOne"
  /\ emitted' = <<>>
  /\ UNCHANGED <<convs, msgs, nConvs, nMsgs, now, ioSet, socks, onlineUsers>>
  /\ IF ExistingConversations(reqs[r].userId, reqs[r].participantId) # {}
     THEN \E c \in ExistingConversations(reqs[r].userId, reqs[r].participantId) :
            /\ reqs' = [reqs EXCEPT ![r] = Finish(reqs[r], "200", c)]
            /\ last' = Reply("createConversation", reqs[r].userId, "200", c)
     ELSE /\ reqs' = [reqs EXCEPT ![r].pc = "create"]
          /\ last' = NoLast

\* Conversation.create resolves (the participants index is not unique)
InsertConversation(r) ==
  /\ r \in DOMAIN reqs
  /\ reqs[r].pc = "create"
  /\ nConvs < MaxConvs
  /\ ValidParticipants(<<reqs[r].userId, reqs[r].participantId>>)
  /\ \E t \in Times :
       /\ now' = t
       /\ convs' = convs @@ (ConvId(nConvs + 1) :>
                               NewConversation(reqs[r].userId, reqs[r].participantId, t))
  /\ nConvs' = nConvs + 1
  /\ reqs' = [reqs EXCEPT ![r] = Finish(reqs[r], "201", ConvId(nConvs + 1))]
  /\ emitted' = <<>>
  /\ last' = Reply("createConversation", reqs[r].userId, "201", ConvId(nConvs + 1))
  /\ UNCHANGED <<msgs, nMsgs, ioSet, socks, onlineUsers>>

\* ============================================================ behaviours
Empty == [x \in {} |-> x]

\* the process has just started: empty collections, no connection, io unset
Init ==
  /\ convs = Empty
  /\ msgs = Empty
  /\ nConvs = 0
  /\ nMsgs = 0
  /\ now = 0
  /\ ioSet = FALSE
  /\ socks = [s \in Sockets |-> NoSocket]
  /\ onlineUsers = Empty
  /\ emitted = <<>>
  /\ last = NoLast
  /\ reqs = Empty

\* ?page=&limit= of a list request: both absent, or page 2 of pages of one
QueryInputs == {<<0, 0>>, <<2, 1>>}

\* the conversation endpoints from a fresh store, one request at a time
Next ==
  \/ \E u \in Users, p \in ParticipantInputs : CreateConversation(u, p)
  \/ \E u \in Users, c \in ConvIds : DeleteConversation(u, c)

Spec == Init /\ [][Next]_vars

\* two createConversation requests whose awaits interleave
RaceNext ==
  \/ \E r \in ReqIds, u \in Users, p \in ParticipantInputs : BeginCreate(r, u, p)
  \/ \E r \in ReqIds : FindUser(r)
  \/ \E r \in ReqIds : FindConversation(r)
  \/ \E r \in ReqIds : InsertConversation(r)

RaceSpec == Init /\ [][RaceNext]_vars

\* A has created the conversation with B at time t (C is in no
\* conversation), the gateway runs and each user holds one connection
StoreAt(t) ==
  /\ convs = (ConvId(1) :> NewConversation("A", "B", t))
  /\ msgs = Empty
  /\ nConvs = 1
  /\ nMsgs = 0
  /\ now = t
  /\ ioSet = TRUE
  /\ socks = [s \in Sockets |->
                [status |-> "active",
                 userId |-> CASE s = "s1" -> "A" [] s = "s2" -> "B" [] OTHER -> "C",
                 rooms |-> {CASE s = "s1" -> "A" [] s = "s2" -> "B" [] OTHER -> "C"}]]
  /\ onlineUsers = [u \in Users |-> CASE u = "A" -> "s1" [] u = "B" -> "s2" [] OTHER -> "s3"]
  /\ emitted = <<>>
  /\ last = NoLast
  /\ reqs = Empty

\* sending and listing over both paths, one request at a time
SendInit == StoreAt(0)

SendNext ==
  \/ \E u \in Users, c \in ConvIds, x \in Texts : SendMessage(u, c, x)
  \/ \E u \in Users, c \in ConvIds, q \in QueryInputs : GetMessages(u, c, q[1], q[2])
  \/ \E s \in Sockets, c \in ConvIds, x \in Texts : WsSendMessage(s, c, x)

SendSpec == SendInit /\ [][SendNext]_vars

\* sending, listing and acknowledging reading over both paths, one
\* request at a time.  The clock stands at its last tick: every timestamp
\* taken is that tick.
BriefTexts == {<<"x">>, <<" ">>}

ReadInit == StoreAt(MaxTime)

ReadNext ==
  \/ \E u \in Users, c \in ConvIds, x \in BriefTexts : SendMessage(u, c, x)
  \/ \E u \in Users, m \in MsgIds : MarkAsRead(u, m)
  \/ \E u \in Users, c \in ConvIds, q \in QueryInputs : GetMessages(u, c, q[1], q[2])
  \/ \E s \in Sockets, c \in ConvIds, x \in BriefTexts : WsSendMessage(s, c, x)
  \/ \E s \in Sockets, m \in MsgIds : WsMessageRead(s, m)

ReadSpec == ReadInit /\ [][ReadNext]_vars

\* the gateway: A has created the conversation with B; connections come
\* and go, join and leave rooms, send and acknowledge reading.  The clock
\* stands at its last tick, timestamps playing no part in delivery.
GatewaySockets == {"s1", "s2"}
GatewayRooms == {ConvId(1), "A"}

GatewayInit ==
  /\ convs = (ConvId(1) :> NewConversation("A", "B", MaxTime))
  /\ msgs = Empty
  /\ nConvs = 1
  /\ nMsgs = 0
  /\ now = MaxTime
  /\ ioSet = FALSE
  /\ socks = [s \in Sockets |-> NoSocket]
  /\ onlineUsers = Empty
  /\ emitted = <<>>
  /\ last = NoLast
  /\ reqs = Empty

GatewayNext ==
  \/ SetSocketInstance
  \/ \E s \in GatewaySockets, u \in Users : Connect(s, u)
  \/ \E s \in GatewaySockets : Disconnect(s)
  \/ \E s \in GatewaySockets, c \in GatewayRooms : JoinConversation(s, c)
  \/ \E s \in GatewaySockets, c \in GatewayRooms : LeaveConversation(s, c)
  \/ \E s \in GatewaySockets, c \in ConvIds, x \in BriefTexts : WsSendMessage(s, c, x)
  \/ \E u \in Users, m \in MsgIds : MarkAsRead(u, m)
  \/ \E s \in GatewaySockets, m \in MsgIds : WsMessageRead(s, m)

GatewaySpec == GatewayInit /\ [][GatewayNext]_vars

\* the gateway behind its handshake: connections present credentials, and
\* those let in join, leave, send, acknowledge reading and disconnect
HandshakeNext ==
  \/ \E s \in GatewaySockets, a \in AuthInputs, h \in HeaderInputs, q \in QueryTokenInputs :
       Handshake(s, a, h, q)
  \/ \E s \in GatewaySockets : Disconnect(s)
  \/ \E s \in GatewaySockets, c \in GatewayRooms : JoinConversation(s, c)
  \/ \E s \in GatewaySockets, c \in GatewayRooms : LeaveConversation(s, c)
  \/ \E s \in GatewaySockets, c \in ConvIds, x \in BriefTexts : WsSendMessage(s, c, x)
  \/ \E s \in GatewaySockets, m \in MsgIds : WsMessageRead(s, m)

HandshakeSpec == GatewayInit /\ [][HandshakeNext]_vars


\* both send paths side by side: the gateway instance may or may not have
\* been handed to the REST controllers; connections come and go, join and
\* leave the conversation's room; messages are sent over either path and listed.  The clock
\* stands at its last tick.  Sends name the stored conversation or an id
\* that names none.
DeliveryConvs == {ConvId(1), ConvId(MaxConvs)}

DeliveryRooms == {ConvId(1)}

DeliveryNext ==
  \/ SetSocketInstance
  \/ \E s \in GatewaySockets, u \in Users : Connect(s, u)
  \/ \E s \in GatewaySockets : Disconnect(s)
  \/ \E s \in GatewaySockets, c \in DeliveryRooms : JoinConversation(s, c)
  \/ \E s \in GatewaySockets, c \in DeliveryRooms : LeaveConversation(s, c)
  \/ \E u \in Users, c \in DeliveryConvs, x \in BriefTexts : SendMessage(u, c, x)
  \/ \E s \in GatewaySockets, c \in DeliveryConvs, x \in BriefTexts : WsSendMessage(s, c, x)
  \/ \E u \in Users : GetMessages(u, ConvId(1), 0, 0)

DeliverySpec == GatewayInit /\ [][DeliveryNext]_vars

\* sends in flight: up to two requests, over either path, advance await by
\* await in any interleaving; a store operation may reject; connections
\* close and leave their personal room meanwhile
FlightSenders == {<<"s1", "A">>, <<"s2", "B">>, <<RestPath, "A">>, <<RestPath, "C">>}
FlightSockets == {"s1", "s2"}
FlightRooms == {"B"}

FlightNext ==
  \/ \E r \in ReqIds, i \in FlightSenders, c \in DeliveryConvs, x \in BriefTexts :
       BeginSend(r, i[1], i[2], c, x)
  \/ \E r \in ReqIds : SendFindConversation(r)
  \/ \E r \in ReqIds : SendCreate(r)
  \/ \E r \in ReqIds : SendPopulate(r)
  \/ \E r \in ReqIds : SendUpdate(r)
  \/ \E r \in ReqIds : SendFail(r)
  \/ \E s \in FlightSockets : Disconnect(s)
  \/ \E s \in FlightSockets, c \in FlightRooms : LeaveConversation(s, c)

FlightSpec == SendInit /\ [][FlightNext]_vars

\* reading in flight: messages are sent, up to two mark-read requests, over
\* either path, advance await by await in any interleaving, a store
\* operation may reject, the conversation is deleted and the unread count
\* is asked for.  The clock stands at its last tick.
MarkReaders == {<<"s2", "B">>, <<"s3", "C">>, <<RestPath, "B">>}

MarkNext ==
  \/ \E u \in Users : SendMessage(u, ConvId(1), <<"x">>)
  \/ \E r \in ReqIds, i \in MarkReaders, m \in MsgIds : BeginRead(r, i[1], i[2], m)
  \/ \E r \in ReqIds : ReadFindMessage(r)
  \/ \E r \in ReqIds : ReadFindConversation(r)
  \/ \E r \in ReqIds : ReadSave(r)
  \/ \E r \in ReqIds : ReadFail(r)
  \/ \E u \in Users : DeleteConversation(u, ConvId(1))
  \/ \E u \in Users : GetUnreadCount(u)

MarkSpec == ReadInit /\ [][MarkNext]_vars

\* sending while deleting: up to three requests, sends over either path and
\* deletes, advance await by await in any interleaving; a store operation
\* may reject.  The clock stands at its last tick.
CascadeReqs == {"r1", "r2", "r3"}
CascadeSenders == {<<"s1", "A">>, <<RestPath, "B">>}
CascadeDeleters == {"A", "C"}

CascadeNext ==
  \/ \E r \in CascadeReqs, i \in CascadeSenders, c \in DeliveryConvs :
       BeginSend(r, i[1], i[2], c, <<"x">>)
  \/ \E r \in CascadeReqs : SendFindConversation(r)
  \/ \E r \in CascadeReqs : SendCreate(r)
  \/ \E r \in CascadeReqs : SendPopulate(r)
  \/ \E r \in CascadeReqs : SendUpdate(r)
  \/ \E r \in CascadeReqs : SendFail(r)
  \/ \E r \in CascadeReqs, u \in CascadeDeleters, c \in DeliveryConvs : BeginDelete(r, u, c)
  \/ \E r \in CascadeReqs : DeleteFindOne(r)
  \/ \E r \in CascadeReqs : DeleteMany(r)
  \/ \E r \in CascadeReqs : DeleteFail(r)

CascadeSpec == ReadInit /\ [][CascadeNext]_vars

\* rooms: A and B are connected, a third connection comes in as any user;
\* connections join and leave the conversation room, type and send, and
\* messages are sent over REST.  The clock stands at its last tick.
RoomInit ==
  /\ convs = (ConvId(1) :> NewConversation("A", "B", MaxTime))
  /\ msgs = Empty
  /\ nConvs = 1
  /\ nMsgs = 0
  /\ now = MaxTime
  /\ ioSet = TRUE
  /\ socks = [s \in Sockets |->
                CASE s = "s1" -> [status |-> "active", userId |-> "A", rooms |-> {"A"}]
                  [] s = "s2" -> [status |-> "active", userId |-> "B", rooms |-> {"B"}]
                  [] OTHER -> NoSocket]
  /\ onlineUsers = ("A" :> "s1") @@ ("B" :> "s2")
  /\ emitted = <<>>
  /\ last = NoLast
  /\ reqs = Empty

RoomNext ==
  \/ \E u \in Users : Connect("s3", u)
  \/ \E s \in Sockets : Disconnect(s)
  \/ \E s \in Sockets, c \in DeliveryRooms : JoinConversation(s, c)
  \/ \E s \in Sockets, c \in DeliveryRooms : LeaveConversation(s, c)
  \/ \E s \in Sockets, c \in DeliveryConvs, b \in BOOLEAN : WsTyping(s, c, b)
  \/ \E s \in Sockets, c \in DeliveryConvs : WsSendMessage(s, c, <<"x">>)
  \/ \E u \in Users : SendMessage(u, ConvId(1), <<"x">>)

RoomSpec == RoomInit /\ [][RoomNext]_vars

\* failures at the gateway: connections of a participant and of an outsider
\* join the conversation room, type and acknowledge reading, the outsider
\* sends; requests are refused or dropped, and the participants' sends and
\* mark-reads in flight meet a store operation that rejects.  The clock stands at its last tick.
FaultSockets == {"s1", "s3"}

FaultNext ==
  \/ \E s \in FaultSockets : JoinConversation(s, ConvId(1))
  \/ \E s \in FaultSockets, c \in DeliveryConvs : WsTyping(s, c, TRUE)
  \/ \E c \in DeliveryConvs, x \in BriefTexts : WsSendMessage("s3", c, x)
  \/ \E s \in FaultSockets, m \in MsgIds : WsMessageRead(s, m)
  \/ \E r \in ReqIds : BeginSend(r, "s1", "A", ConvId(1), <<"x">>)
  \/ \E r \in ReqIds : SendFindConversation(r)
  \/ \E r \in ReqIds : SendCreate(r)
  \/ \E r \in ReqIds : SendPopulate(r)
  \/ \E r \in ReqIds : SendUpdate(r)
  \/ \E r \in ReqIds : SendFail(r)
  \/ \E r \in ReqIds, m \in MsgIds : BeginRead(r, "s2", "B", m)
  \/ \E r \in ReqIds : ReadFindMessage(r)
  \/ \E r \in ReqIds : ReadSave(r)
  \/ \E r \in ReqIds : ReadFail(r)

FaultSpec == ReadInit /\ [][FaultNext]_vars

\* the conversation list: A opens a second conversation, messages are sent
\* over both paths and the conversations are listed, one request at a
\* time, while the clock runs
RecentNext ==
  \/ \E p \in {"B", "C"} : CreateConversation("A", p)
  \/ \E u \in Users, c \in ConvIds : SendMessage(u, c, <<"x">>)
  \/ \E s \in Sockets, c \in ConvIds : WsSendMessage(s, c, <<"x">>)
  \/ \E u \in Users, q \in QueryInputs : GetConversations(u, q[1], q[2])

RecentSpec == SendInit /\ [][RecentNext]_vars

\* ================================================================ claims
\* the conversations of a collection whose participant set is {a, b}
ConvsOf(cs, a, b) == {c \in DOMAIN cs : Range(cs[c].participants) = {a, b}}

\* C1: a createConversation request between two distinct users, made by
\* either of them while no other request is running, answers with success
\* and with the id of the one stored conversation whose participant set is
\* that pair; when such a conversation existed before the request it is
\* that one that is returned, and the collection is left as it was.
C1_CreateOrGetSameConversation ==
  [][\A a, b \in Users :
       (a # b /\ CreateConversation(a, b)) =>
         /\ last'.status \in {"200", "201"}
         /\ ConvsOf(convs', a, b) = {last'.id}
         /\ ConvsOf(convs, a, b) # {} =>
              (ConvsOf(convs, a, b) = {last'.id} /\ convs' = convs)]_vars

\* a request found the conversation of a pair and returned it ("already exists")
C1_Witness ==
  /\ last.op = "createConversation"
  /\ last.status = "200"
  /\ \E a, b \in Users : a # b /\ ConvsOf(convs, a, b) = {last.id}

\* C2: when A asks for the conversation with B and B asks for the
\* conversation with A, and both requests have been answered, whatever the
\* order in which their lookups and creates ran, the two answers carry the
\* same conversation id and exactly one conversation of {A, B} is stored.
C2_ConcurrentCreateOneConversation ==
  \A r1, r2 \in DOMAIN reqs :
    ( /\ r1 # r2
      /\ reqs[r1].pc = "done" /\ reqs[r2].pc = "done"
      /\ reqs[r1].userId # reqs[r1].participantId
      /\ reqs[r2].userId = reqs[r1].participantId
      /\ reqs[r2].participantId = reqs[r1].userId
      /\ reqs[r1].participantId \in Users )
    => /\ reqs[r1].status \in {"200", "201"}
       /\ reqs[r2].status \in {"200", "201"}
       /\ reqs[r1].id = reqs[r2].id
       /\ Cardinality(ConvsOf(convs, reqs[r1].userId, reqs[r1].participantId)) = 1

\* C3: a mark-read request made by the sender of the message is refused on
\* both paths (REST: status 400; gateway: dropped without effect), changes
\* no message (isRead and readAt stay as they were) and emits nothing.
C3_SenderCannotMarkOwnMessage ==
  [][/\ \A u \in Users, m \in DOMAIN msgs :
          (msgs[m].senderId = u /\ MarkAsRead(u, m)) =>
            (last'.status = "400" /\ msgs' = msgs /\ emitted' = <<>>)
     /\ \A s \in Sockets, m \in DOMAIN msgs :
          (msgs[m].senderId = socks[s].userId /\ WsMessageRead(s, m)) =>
            (last'.status = "dropped" /\ msgs' = msgs /\ emitted' = <<>>)]_vars

\* the sender's REST request on an unread message was answered 400
C3_Witness ==
  /\ last.op = "markAsRead"
  /\ last.status = "400"
  /\ \E m \in DOMAIN msgs : ~msgs[m].isRead /\ msgs[m].readAt = NoTime

\* the successful sends into conversation c so far, oldest first
RECURSIVE SentInto(_, _)
SentInto(c, n) ==
  IF n = 0 THEN <<>>
  ELSE IF MsgId(n) \in DOMAIN msgs /\ msgs[MsgId(n)].conversationId = c
       THEN Append(SentInto(c, n - 1), MsgId(n))
       ELSE SentInto(c, n - 1)

C5_EmptyTextRejected ==
  [][/\ last'.op = "sendMessage" =>
          \A x \in {y \in Texts : Trim(y) = <<>>} : \A u \in Users, c \in ConvIds :
            SendMessage(u, c, x) =>
              (last'.status = "400" /\ msgs' = msgs /\ nMsgs' = nMsgs)
     /\ last'.op = "ws:sendMessage" =>
          \A x \in {y \in Texts : Trim(y) = <<>>} : \A s \in Sockets, c \in ConvIds :
            WsSendMessage(s, c, x) =>
              (last'.status = "ack:false" /\ msgs' = msgs /\ nMsgs' = nMsgs)]_vars

\* a REST send of a blank text into an existing conversation (the only
\* cause of 400 among the requests made) was refused while a message could
\* still have been stored
C5_Witness ==
  /\ last.op = "sendMessage"
  /\ last.status = "400"
  /\ nMsgs < MaxMsgs
  /\ msgs # Empty

\* the durable state: both collections
StoreUnchanged == convs' = convs /\ msgs' = msgs /\ nMsgs' = nMsgs /\ nConvs' = nConvs

\* C6: a user outside an existing conversation gets 403 from
\* listMessages, from appendMessage with any text and from markRead of one
\* of its messages, and nothing stored changes.
C6_OutsiderForbidden ==
  [][\A u \in Users, c \in DOMAIN convs :
       u \notin Range(convs[c].participants) =>
         /\ \A q \in QueryInputs :
              GetMessages(u, c, q[1], q[2]) => (last'.status = "403" /\ StoreUnchanged)
         /\ \A x \in Texts :
              SendMessage(u, c, x) => (last'.status = "403" /\ StoreUnchanged)
         /\ \A m \in DOMAIN msgs :
              (msgs[m].conversationId = c /\ MarkAsRead(u, m)) =>
                (last'.status = "403" /\ StoreUnchanged)]_vars

\* C7: a message becomes read only through a mark-read (REST or gateway)
\* made for a user who is a participant of the message's conversation and
\* is not its sender.
C7_ReadOnlyByOtherParticipant ==
  [][\A m \in DOMAIN msgs :
       (m \in DOMAIN msgs' /\ ~msgs[m].isRead /\ msgs'[m].isRead) =>
         /\ last'.op \in {"markAsRead", "ws:messageRead"}
         /\ msgs[m].conversationId \in DOMAIN convs
         /\ last'.by \in Range(convs[msgs[m].conversationId].participants)
         /\ last'.by # msgs[m].senderId]_vars

\* the connections a step delivered event ev about arg to
Delivered(ev, arg) ==
  UNION {emitted'[i].to : i \in {j \in 1..Len(emitted') :
                                   emitted'[j].ev = ev /\ emitted'[j].arg = arg}}

\* the active connections of user u
ConnectionsOf(u) == {d \in Sockets : Active(d) /\ socks[d].userId = u}

\* C8: a successful gateway send into conversation c delivers newMessage
\* to every active connection that has joined c's room and to every active
\* connection of every participant of c, whether it joined the room or not.
C8_NewMessageReachesParticipants ==
  [][\A s \in GatewaySockets, c \in DOMAIN convs, x \in BriefTexts :
       (WsSendMessage(s, c, x) /\ last'.status = "ack:true") =>
         /\ InRoom(c) \subseteq Delivered("newMessage", last'.id)
         /\ \A u \in Range(convs[c].participants) :
              ConnectionsOf(u) \subseteq Delivered("newMessage", last'.id)]_vars

\* C9: a successful mark-read of message m (REST or gateway) delivers
\* messageRead about m to every active connection of m's sender and to no
\* connection of anyone else.
C9_MessageReadToSenderOnly ==
  [][\A m \in DOMAIN msgs :
       ( \/ \E u \in Users : MarkAsRead(u, m) /\ last'.status = "200"
         \/ \E s \in GatewaySockets : WsMessageRead(s, m) /\ last'.status = "done" ) =>
         Delivered("messageRead", m) = ConnectionsOf(msgs[m].senderId)]_vars

\* C10: a disconnect broadcasts userOffline for its user only when the user
\* holds no other active connection.
C10_OfflineOnlyOnLastConnection ==
  [][\A s \in GatewaySockets :
       (Disconnect(s) /\ ConnectionsOf(socks[s].userId) # {s}) =>
         \A i \in 1..Len(emitted') :
           ~(emitted'[i].ev = "userOffline" /\ emitted'[i].arg = socks[s].userId)]_vars

\* C11: a user has an entry in onlineUsers exactly when the user holds an
\* active connection, and the socket recorded for the user is an active
\* connection of that user, however connects and disconnects interleave.
C11_PresenceMatchesConnections ==
  \A u \in Users :
    /\ (u \in DOMAIN onlineUsers) <=> (ConnectionsOf(u) # {})
    /\ u \in DOMAIN onlineUsers => onlineUsers[u] \in ConnectionsOf(u)

\* the credential a handshake presents: the first non-empty one among the
\* auth field, the authorization header without its scheme, and the query
\* parameter; <<>> when there is none
Presented(a, h, q) ==
  IF Truthy(a) THEN a
  ELSE IF Truthy(h) /\ ReplaceFirst(h[1], Bearer) # <<>> THEN <<ReplaceFirst(h[1], Bearer)>>
  ELSE IF Truthy(q) THEN q
  ELSE <<>>

\* that credential is signed for an existing user
GoodCredential(c) ==
  /\ c # <<>>
  /\ c[1] \in {<<"tA">>, <<"tB">>, <<"tC">>}

\* C12: a connection whose credential is missing, invalid or names no
\* existing user never becomes active: it enters no room and no presence
\* entry, no userOnline is broadcast for it, and from then on none of its
\* events is processed.
C12_UnauthenticatedNeverActive ==
  [][/\ \A s \in GatewaySockets, a \in AuthInputs, h \in HeaderInputs, q \in QueryTokenInputs :
          (Handshake(s, a, h, q) /\ ~GoodCredential(Presented(a, h, q))) =>
            /\ socks'[s] = RejectedSocket
            /\ onlineUsers' = onlineUsers
            /\ emitted' = <<>>
            /\ last'.op = "handshake"
     /\ \A s \in GatewaySockets :
          socks[s].status = "rejected" =>
            /\ socks'[s] = socks[s]
            /\ s \notin Range(onlineUsers')
            /\ \A i \in 1..Len(emitted') : s \notin emitted'[i].to
            /\ ~\E c \in GatewayRooms : JoinConversation(s, c) \/ LeaveConversation(s, c)
            /\ ~\E c \in ConvIds, x \in BriefTexts : WsSendMessage(s, c, x)
            /\ ~\E m \in MsgIds : WsMessageRead(s, m)]_vars

\* every connection was refused, the last one for a credential that names
\* no existing user
C12_Witness ==
  /\ last.op = "handshake" /\ last.status = "User not found"
  /\ \A s \in GatewaySockets : socks[s].status = "rejected"

\* C13: the handshake verifies the first credential present in the order
\* auth field, authorization header, query parameter: its outcome is the
\* outcome of verifying that one, whatever the later ones are.
C13_CredentialPrecedence ==
  [][\A s \in GatewaySockets, a \in AuthInputs, h \in HeaderInputs, q \in QueryTokenInputs :
       Handshake(s, a, h, q) =>
         LET c == Presented(a, h, q) IN
         /\ c = <<>> => last'.status = "No token provided"
         /\ (c # <<>> /\ c[1] \notin {<<"tA">>, <<"tB">>, <<"tC">>, <<"tGhost">>})
              => last'.status = "Invalid token"
         /\ (c # <<>> /\ c[1] = <<"tGhost">>) => last'.status = "User not found"
         /\ GoodCredential(c) =>
              /\ socks'[s].status = "active"
              /\ socks'[s].userId =
                   (CASE c[1] = <<"tA">> -> "A" [] c[1] = <<"tB">> -> "B" [] OTHER -> "C")]_vars

\* one connection was admitted on its header credential (no auth field) and
\* another on its query credential (neither auth field nor header)
C13_Witness ==
  \E s, t \in GatewaySockets :
    /\ Active(s) /\ socks[s].userId = "B"
    /\ Active(t) /\ socks[t].userId = "C"

\* the connections that are in one of the rooms
InRooms(rooms) == UNION {InRoom(room) : room \in rooms}

\* C15: a REST send that passes validation stores the message and answers
\* 201 whether or not the gateway instance is set; with the instance it
\* emits newMessage to the conversation room and to every participant's
\* personal room, without it it emits nothing; what is stored is the same
\* in both cases.
C15_RestSendWithOrWithoutGateway ==
  [][\A u \in Users, c \in DOMAIN convs, x \in BriefTexts :
       ( /\ last'.op = "sendMessage"
         /\ u \in Range(convs[c].participants) /\ Trim(x) # <<>>
         /\ SendMessage(u, c, x) ) =>
         /\ last'.status = "201"
         /\ DOMAIN msgs' = DOMAIN msgs \cup {last'.id}
         /\ last'.id \notin DOMAIN msgs
         /\ \A m \in DOMAIN msgs : msgs'[m] = msgs[m]
         /\ msgs'[last'.id] = [conversationId |-> c, senderId |-> u, text |-> Trim(x),
                               isRead |-> FALSE, readAt |-> NoTime, createdAt |-> now]
         /\ convs' = [convs EXCEPT ![c].lastMessage =
                                     [text |-> Trim(x), senderId |-> u, timestamp |-> now],
                                   ![c].updatedAt = now]
         /\ IF ioSet
            THEN Delivered("newMessage", last'.id) =
                   InRooms({c} \cup Range(convs[c].participants))
            ELSE emitted' = <<>>]_vars

\* a REST send was answered 201 with the gateway instance set while a
\* connection of a participant was not in the conversation room
C15_Witness ==
  /\ last.op = "sendMessage" /\ last.status = "201"
  /\ ioSet
  /\ \E i \in 1..Len(emitted) : emitted[i].to # {}
  /\ \E s \in GatewaySockets :
       /\ Active(s)
       /\ socks[s].userId \in Range(convs[ConvId(1)].participants)
       /\ ConvId(1) \notin socks[s].rooms

\* the outcome class of a send response
OutcomeClass(o) ==
  CASE o.status \in {"201", "ack:true"} -> "success"
    [] o.status = "404" -> "not-found"
    [] o.status = "403" -> "not-a-participant"
    [] o.status = "400" -> "empty-text"
    [] o.error = "Conversation not found" -> "not-found"
    [] o.error = "You are not a participant in this conversation" -> "not-a-participant"
    [] o.error = "Conversation ID and message text are required" -> "empty-text"
    [] OTHER -> "other"

\* outcome class and resulting collections of a send
StoreOutcome(o) == [class |-> OutcomeClass(o), msgs |-> o.msgs, convs |-> o.convs]

\* the inputs of a send a connection can make: a pair of an active
\* connection and a conversation id and text
SendInputs == {i \in GatewaySockets \X (DeliveryConvs \cup {Absent}) \X BriefTexts : Active(i[1])}

\* C16: from one store state and one (sender, conversationId, text), the
\* REST send and the gateway send have the same outcome class, leave the
\* same collections and emit newMessage to the same rooms.
C16_RestAndGatewaySendAgree ==
  \A i \in SendInputs :
    {[class |-> OutcomeClass(o), msgs |-> o.msgs, convs |-> o.convs, rooms |-> Range(o.rooms)] :
       o \in SendMessageOutcomes(socks[i[1]].userId, i[2], i[3])}
    = {[class |-> OutcomeClass(o), msgs |-> o.msgs, convs |-> o.convs, rooms |-> Range(o.rooms)] :
         o \in WsSendMessageOutcomes(i[1], i[2], i[3])}

\* C16 amended: the two sends have the same outcome class and leave the
\* same collections; they emit to the same rooms when the gateway instance
\* has been set for the controllers, and otherwise the REST send emits to
\* none.
C16_SendsAgreeUpToGatewayInstance ==
  \A i \in SendInputs :
    LET rest == SendMessageOutcomes(socks[i[1]].userId, i[2], i[3])
        ws == WsSendMessageOutcomes(i[1], i[2], i[3])
    IN /\ {StoreOutcome(o) : o \in rest} = {StoreOutcome(o) : o \in ws}
       /\ \A o \in rest, w \in ws :
            StoreOutcome(o) = StoreOutcome(w) =>
              Range(o.rooms) = (IF ioSet THEN Range(w.rooms) ELSE {})

\* with the gateway instance set, a participant and an outsider are
\* connected and a further message can still be stored
C16_Witness ==
  /\ ioSet
  /\ nMsgs < MaxMsgs
  /\ msgs # Empty
  /\ \E s, t \in GatewaySockets :
       /\ Active(s) /\ socks[s].userId \in Range(convs[ConvId(1)].participants)
       /\ Active(t) /\ socks[t].userId \notin Range(convs[ConvId(1)].participants)

\* C17: when the only connection of a user closes, every other active
\* connection receives userOffline with that user's id; a gateway send by a
\* participant into a conversation whose other participants hold no
\* connection succeeds and is stored; and every list request of a
\* participant from then on returns the stored messages of the conversation.
C17_OfflineThenSendThenList ==
  [][/\ last'.op = "disconnect" =>
          \A s \in GatewaySockets :
            (Disconnect(s) /\ ConnectionsOf(socks[s].userId) = {s}) =>
              Delivered("userOffline", socks[s].userId) = {d \in Sockets : Active(d) /\ d # s}
     /\ last'.op = "ws:sendMessage" =>
          \A s \in GatewaySockets, c \in DOMAIN convs, x \in BriefTexts :
            ( /\ socks[s].userId \in Range(convs[c].participants)
              /\ Trim(x) # <<>>
              /\ \A u \in Range(convs[c].participants) \ {socks[s].userId} :
                   ConnectionsOf(u) = {}
              /\ WsSendMessage(s, c, x) ) =>
              /\ last'.status = "ack:true"
              /\ last'.id \in DOMAIN msgs'
              /\ msgs'[last'.id].conversationId = c
     /\ last'.op = "getMessages" =>
          \A c \in DOMAIN convs : \A u \in Range(convs[c].participants) :
            GetMessages(u, c, 0, 0) =>
              /\ last'.status = "200"
              /\ {m \in DOMAIN msgs : msgs[m].conversationId = c} \subseteq Range(last'.messages)]_vars

\* B, holding no connection, was returned a list with a message A sent,
\* and a connection has closed
C17_Witness ==
  /\ last.op = "getMessages" /\ last.by = "B" /\ last.status = "200"
  /\ \E i \in 1..Len(last.messages) : msgs[last.messages[i]].senderId = "A"
  /\ ConnectionsOf("B") = {}
  /\ \E s \in GatewaySockets : socks[s].status = "closed"
  /\ ConnectionsOf("A") # {}

\* the sends that have been answered, and those answered with success
Answered == {r \in DOMAIN reqs : reqs[r].pc = "done"}
Succeeded == {r \in Answered : reqs[r].status \in {"201", "ack:true"}}

\* C14: a send answered without success (REST status other than 201,
\* gateway acknowledgment success:false), whatever the cause, has added no
\* message and has emitted no newMessage.
C14_FailedSendLeavesNothing ==
  \A r \in Answered \ Succeeded :
    /\ reqs[r].id = NoId
    /\ reqs[r].emittedAt = 0

\* C18: when a gateway send completes after its connection has closed, the
\* message is stored, lastMessage carries it, newMessage reaches every
\* active connection of the other participants and nothing is delivered to
\* the closed connection.
C18_SendOutlivesItsConnection ==
  [][\A r \in DOMAIN reqs :
       ( /\ reqs[r].socket # RestPath
         /\ reqs[r].pc = "update"
         /\ ~Active(reqs[r].socket)
         /\ SendUpdate(r) ) =>
         /\ reqs'[r].status = "ack:true"
         /\ reqs[r].id \in DOMAIN msgs'
         /\ convs'[reqs[r].conversationId].lastMessage.text = msgs'[reqs[r].id].text
         /\ convs'[reqs[r].conversationId].lastMessage.senderId = reqs[r].userId
         /\ \A u \in Range(convs[reqs[r].conversationId].participants) \ {reqs[r].userId} :
              ConnectionsOf(u) \subseteq Delivered("newMessage", reqs[r].id)
         /\ reqs[r].socket \notin Delivered("newMessage", reqs[r].id)]_vars

\* C19: of two successful sends into one conversation, the one whose
\* store operations completed first is the one whose newMessage was emitted
\* first.
C19_EmitOrderIsCompletionOrder ==
  \A r, q \in Succeeded :
    (r # q /\ reqs[r].conversationId = reqs[q].conversationId) =>
      /\ reqs[r].emittedAt > 0
      /\ reqs[r].completed > 0
      /\ (reqs[r].completed < reqs[q].completed) <=> (reqs[r].emittedAt < reqs[q].emittedAt)

\* two sends of different senders into the conversation both succeeded,
\* the one that arrived second completing first
C19_Witness ==
  /\ Succeeded = ReqIds
  /\ reqs["r1"].userId # reqs["r2"].userId
  /\ reqs["r2"].completed < reqs["r1"].completed
  /\ reqs["r2"].emittedAt = 1

\* both sends have succeeded, into one conversation, and none is in flight
BothSucceeded(c) ==
  /\ Succeeded = ReqIds
  /\ \A r \in ReqIds : reqs[r].conversationId = c

\* the messages of conversation c with the greatest createdAt
Newest(c) ==
  {m \in DOMAIN msgs : /\ msgs[m].conversationId = c
                       /\ \A n \in DOMAIN msgs :
                            msgs[n].conversationId = c => msgs[n].createdAt <= msgs[m].createdAt}

\* C20: once two concurrent sends into conversation c have both succeeded,
\* lastMessage carries the text and sender of the message of c with the
\* greatest createdAt.
C20_LastMessageIsNewest ==
  \A c \in DOMAIN convs :
    BothSucceeded(c) =>
      \E m \in Newest(c) :
        /\ convs[c].lastMessage.text = msgs[m].text
        /\ convs[c].lastMessage.senderId = msgs[m].senderId

\* C20 amended: once both have succeeded, lastMessage carries the text and
\* sender of the message of the send whose lastMessage update completed
\* last, whichever message has the greatest createdAt.
C20_LastMessageIsLastWrite ==
  \A c \in DOMAIN convs :
    BothSucceeded(c) =>
      \E r \in ReqIds :
        /\ reqs[r].completed = 2
        /\ convs[c].lastMessage.text = msgs[reqs[r].id].text
        /\ convs[c].lastMessage.senderId = msgs[reqs[r].id].senderId

\* both sends succeeded, and the message stored first (by another sender)
\* had its lastMessage update completed last
C20_Witness ==
  /\ BothSucceeded(ConvId(1))
  /\ \E r, q \in ReqIds :
       /\ reqs[r].completed = 2 /\ reqs[q].completed = 1
       /\ reqs[r].userId # reqs[q].userId
       /\ msgs[reqs[r].id].createdAt < msgs[reqs[q].id].createdAt

\* C21: isRead only ever goes from false to true.  A message is stored
\* with isRead false; only a mark-read (REST or gateway) on that message
\* changes it; once true it is never false again; a mark-read of an
\* already-read message by someone other than its sender succeeds (200, or
\* the gateway handler runs to its end) and leaves isRead true.
C21_IsReadMonotonic ==
  [][/\ \A m \in DOMAIN msgs' \ DOMAIN msgs : ~msgs'[m].isRead
     /\ \A m \in DOMAIN msgs \cap DOMAIN msgs' :
          /\ msgs[m].isRead => msgs'[m].isRead
          /\ msgs'[m].isRead # msgs[m].isRead =>
               (last'.op \in {"markAsRead", "ws:messageRead"} /\ last'.id = m)
     /\ \A r \in DOMAIN reqs :
          (/\ reqs[r].pc = "save"
           /\ reqs[r].messageId \in DOMAIN msgs
           /\ msgs[reqs[r].messageId].isRead
           /\ ReadSave(r)) =>
            /\ last'.status \in {"200", "done"}
            /\ msgs'[reqs[r].messageId].isRead]_vars

\* a mark-read that loaded the message as already read has succeeded, and
\* the message is still read
C21_Witness ==
  \E r \in DOMAIN reqs :
    /\ reqs[r].pc = "done"
    /\ reqs[r].wasRead
    /\ reqs[r].status \in {"200", "done"}
    /\ reqs[r].messageId \in DOMAIN msgs
    /\ msgs[reqs[r].messageId].isRead

\* C22: once a deleteConversation of a conversation by one of its
\* participants has completed, no stored message carries that
\* conversation's id, in that state and in every later one, whatever sends
\* were in flight when the delete ran.
C22_NoMessagesAfterDelete ==
  \A r \in DOMAIN reqs :
    reqs[r].pc = "deleted" =>
      \A m \in DOMAIN msgs : msgs[m].conversationId # reqs[r].conversationId

\* C23: in every reachable state, every stored message names an existing
\* conversation and its senderId is one of that conversation's
\* participants, whichever path (REST or gateway) created it.
C23_SenderIsParticipant ==
  \A m \in DOMAIN msgs :
    /\ msgs[m].conversationId \in DOMAIN convs
    /\ IsParticipant(msgs[m].conversationId, msgs[m].senderId)

\* C24: every conversation's participants, taken as a set, has at least
\* two distinct members, and the participants of a conversation never
\* change after its creation; the requester and the other participant of a
\* create request are not assumed distinct.
C24_TwoParticipantsForGood ==
  [][/\ \A c \in DOMAIN convs' : Cardinality(Range(convs'[c].participants)) >= 2
     /\ \A c \in DOMAIN convs \cap DOMAIN convs' :
          convs'[c].participants = convs[c].participants]_vars

\* C25: a typing event from a connection whose user is not a participant of
\* the named conversation, or naming an absent conversation, is broadcast
\* to nobody; from a participant (the lookup not failing) it is delivered
\* to exactly the connections joined to the conversation's room other than
\* the originating one.  In no case is anything sent to the originating
\* connection, an error included.
C25_TypingToRoomButSender ==
  [][last'.op = "ws:typing" =>
       \A s \in Sockets, c \in DeliveryConvs, b \in BOOLEAN :
         WsTyping(s, c, b) =>
           /\ \A i \in DOMAIN emitted' : s \notin emitted'[i].to
           /\ IF c \in DOMAIN convs /\ IsParticipant(c, socks[s].userId)
              THEN last'.status # "failed" =>
                     Delivered("typing", TypingPayload(socks[s].userId, c, b))
                       = {x \in Sockets : Active(x) /\ c \in socks[x].rooms} \ {s}
              ELSE emitted' = <<>>]_vars

\* a participant's typing event has reached another connection of the same
\* user in the room, while the originating connection, in the room as
\* well, got nothing
C25_Witness ==
  /\ last.op = "ws:typing"
  /\ last.status = "done"
  /\ Len(emitted) = 1
  /\ \E x \in emitted[1].to : socks[x].userId = last.by
  /\ \E s \in Sockets \ emitted[1].to :
       Active(s) /\ socks[s].userId = last.by /\ last.id \in socks[s].rooms

\* C26: the unread count returned to caller u is exactly the number of
\* stored unread messages not sent by u in conversations u takes part in;
\* a successful mark-read by u of a message that was unread until then
\* lowers u's count by one, and one of a message already read leaves it as
\* it was.
C26_UnreadCountExact ==
  [][/\ last'.op = "getUnreadCount" =>
          \A u \in Users :
            GetUnreadCount(u) =>
              last'.total = Cardinality({m \in DOMAIN msgs :
                                           /\ ~msgs[m].isRead
                                           /\ msgs[m].senderId # u
                                           /\ msgs[m].conversationId \in DOMAIN convs
                                           /\ u \in Range(convs[msgs[m].conversationId].participants)})
     /\ \A r \in DOMAIN reqs :
          (/\ reqs[r].pc = "save"
           /\ last'.status \in {"200", "done"}
           /\ ReadSave(r)) =>
            UnreadCount(reqs[r].userId)' =
              UnreadCount(reqs[r].userId) - (IF msgs[reqs[r].messageId].isRead THEN 0 ELSE 1)]_vars

\* C27: a client event whose handling fails (a send refused or hit by a
\* store error, a typing event or a mark-read dropped or hit by a store
\* error) leaves every connection as it was: still active, still
\* registered as online and still in the rooms it had joined.
C27_FailureKeepsConnection ==
  [][(/\ last'.op \in {"ws:sendMessage", "ws:typing", "ws:messageRead"}
      /\ last'.status \in {"ack:false", "dropped", "failed"}) =>
       /\ socks' = socks
       /\ onlineUsers' = onlineUsers]_vars

\* a typing event met a store error, and a connection of its user is
\* still active and in the conversation room it had joined
C27_Witness ==
  /\ last.op = "ws:typing"
  /\ last.status = "failed"
  /\ \E s \in Sockets :
       /\ Active(s)
       /\ socks[s].userId = last.by
       /\ ConvId(1) \in socks[s].rooms
       /\ onlineUsers[last.by] = s

\* the conversation a successful send has just been answered for
JustSentInto ==
  IF last.op \in {"sendMessage", "ws:sendMessage"} /\ last.status \in {"201", "ack:true"}
  THEN {msgs[last.id].conversationId} ELSE {}

\* a successful send stamps its conversation no earlier than any
\* conversation was stamped before
SendStampsLatest ==
  (/\ last'.op \in {"sendMessage", "ws:sendMessage"}
   /\ last'.status \in {"201", "ack:true"}) =>
     \A c \in DOMAIN convs :
       convs'[msgs'[last'.id].conversationId].updatedAt >= convs[c].updatedAt

\* every list handed out is ordered by non-increasing updatedAt
ListedRecentFirst ==
  last'.op = "getConversations" =>
    \A i \in 1..(Len(last'.messages) - 1) :
      convs[last'.messages[i]].updatedAt >= convs[last'.messages[i + 1]].updatedAt

C29_OnlyParticipantsReceive ==
  [][\A i \in DOMAIN emitted' :
       /\ emitted'[i].ev = "newMessage" =>
            \A x \in emitted'[i].to :
              IsParticipant(msgs'[emitted'[i].arg].conversationId, socks[x].userId)
       /\ emitted'[i].ev = "typing" =>
            \A x \in emitted'[i].to :
              IsParticipant(emitted'[i].arg[2], socks[x].userId)]_vars

\* C30: for one successful send, over either path, every active connection
\* receives the newMessage event at most once: a connection that is in the
\* conversation's room and in its user's personal room, and the sender's
\* own connection, too.
C30_NewMessageAtMostOnce ==
  [][(/\ last'.op \in {"sendMessage", "ws:sendMessage"}
      /\ last'.status \in {"201", "ack:true"}) =>
       \A x \in Sockets :
         Cardinality({i \in DOMAIN emitted' :
                        emitted'[i].ev = "newMessage" /\ x \in emitted'[i].to}) <= 1]_vars

====
